---- MODULE Spec2Model ----
(***************************************************************************)
(* Model of change_analyzer.py: the text normalizer                        *)
(* (remove_comments_and_normalize), the declaration diff                   *)
(* (find_changed_methods, compare_methods) and the report aggregation of   *)
(* analyze_changes.                                                        *)
(*                                                                         *)
(* Texts are sequences of one-character strings.  Indices into a line are  *)
(* 0-based as in the source, with -1 for "not found" (str.find).           *)
(***************************************************************************)
EXTENDS Integers, Sequences, FiniteSets, TLC

VARIABLES
    \* ---- analyze_changes ----
    pc,                      \* "loop" | "body" | "status" | "send" | "done" | "exit1"
    changed_files,           \* list of [status, path] from get_changed_files
    idx,                     \* position in changed_files of the next file
    cur,                     \* locals of the last loop iteration
    result,                  \* list of file entries
    all_changed_file_paths,  \* list of non-ignored paths
    base_fetched,            \* paths for which get_file_content_at_base was called
    diffed,                  \* paths for which find_changed_methods was called
    zip_exists,              \* the temporary project ZIP is on disk
    tmpdir_exists,           \* the temporary directory of the ZIP is on disk
    audit_result,            \* what send_to_audit_service returned
    \* ---- remove_comments_and_normalize ----
    nText,                   \* the text handed to the normalizer
    nOrig,                   \* the text before the last edit
    nPrev,                   \* the normalizer's result before the last operation
    nOut,                    \* the normalizer's last result
    nOp,                     \* the last operation
    \* ---- extract_contracts ----
    tTree,                   \* the syntax tree handed to extract_contracts
    tOut,                    \* the catalog it returned
    tOp                      \* "idle", "input" or "extracted"

runVars == <<pc, changed_files, idx, cur, result, all_changed_file_paths,
             base_fetched, diffed, zip_exists, tmpdir_exists, audit_result>>
normVars == <<nText, nOrig, nPrev, nOut, nOp>>
treeVars == <<tTree, tOut, tOp>>
vars == <<runVars, normVars, treeVars>>

-----------------------------------------------------------------------------
(* Bounds *)

MaxLen == 5         \* longest text handed to the normalizer
MaxDecls == 2       \* declarations of one catalog
MaxMethods == 2     \* members of one catalog
MaxFiles == 2       \* changed files of one run
MaxTokens == 5      \* tokens of a text made of comment markers

-----------------------------------------------------------------------------
(* Characters and sequence helpers *)

NL == "\n"
TAB == "\t"
SP == " "

\* str.strip() with no argument removes these at both ends
Whitespace == {SP, TAB, NL, "\r"}

\* line[a:b] for 0 <= a, b
Slice(line, a, b) == SubSeq(line, a + 1, b)

\* line.find(c1 + c2, i): lowest index >= i of the two-character string, or -1
RECURSIVE Find(_, _, _, _)
Find(line, c1, c2, i) ==
    IF i + 2 > Len(line) THEN -1
    ELSE IF line[i + 1] = c1 /\ line[i + 2] = c2 THEN i
    ELSE Find(line, c1, c2, i + 1)

\* the lines of text.split("\n") from position j on, line being the part
\* of the current line before j
RECURSIVE SplitFrom(_, _, _)
SplitFrom(text, j, line) ==
    IF j > Len(text) THEN <<line>>
    ELSE IF text[j] = NL THEN <<line>> \o SplitFrom(text, j + 1, <<>>)
    ELSE SplitFrom(text, j + 1, Append(line, text[j]))

\* text.split("\n")
SplitLines(text) == SplitFrom(text, 1, <<>>)

\* sep.join(parts)
RECURSIVE Join(_, _)
Join(parts, sep) ==
    IF parts = <<>> THEN <<>>
    ELSE IF Len(parts) = 1 THEN parts[1]
    ELSE parts[1] \o sep \o Join(Tail(parts), sep)

\* s.rstrip(): a variant of Strip that keeps the leading whitespace
StripTrailingOnly(s) ==
    LET keep == {j \in 1 .. Len(s) : s[j] \notin Whitespace}
    IN  IF keep = {} THEN <<>>
        ELSE SubSeq(s, 1, CHOOSE j \in keep : \A k \in keep : k <= j)

\* s.strip()
Strip(s) ==
    LET keep == {j \in 1 .. Len(s) : s[j] \notin Whitespace}
    IN  IF keep = {} THEN <<>>
        ELSE SubSeq(s, CHOOSE j \in keep : \A k \in keep : j <= k,
                       CHOOSE j \in keep : \A k \in keep : k <= j)

-----------------------------------------------------------------------------
(* remove_comments_and_normalize *)

\* The while loop over one line: i is the scan position, in_c the
\* in_multiline_comment flag, processed the processed_line so far.
RECURSIVE ScanLine(_, _, _, _)
ScanLine(line, i, in_c, processed) ==
    IF ~(i < Len(line)) THEN [line |-> processed, in_c |-> in_c]
    ELSE IF in_c THEN
        LET end_index == Find(line, "*", "/", i)
        IN  IF end_index # -1
            THEN ScanLine(line, end_index + 2, FALSE, processed)
            ELSE ScanLine(line, Len(line), TRUE, processed)
    ELSE
        LET single_comment_index == Find(line, "/", "/", i)
            multi_comment_index == Find(line, "/", "*", i)
        IN  IF single_comment_index # -1
               /\ (multi_comment_index = -1 \/ single_comment_index < multi_comment_index)
            THEN [line |-> processed \o Slice(line, i, single_comment_index),
                  in_c |-> FALSE]
            ELSE IF multi_comment_index # -1
            THEN LET end_index == Find(line, "*", "/", multi_comment_index + 2)
                     p == processed \o Slice(line, i, multi_comment_index)
                 IN  IF end_index # -1
                     THEN ScanLine(line, end_index + 2, FALSE, p)
                     ELSE ScanLine(line, Len(line), TRUE, p)
            ELSE [line |-> processed \o Slice(line, i, Len(line)), in_c |-> FALSE]

\* a variant of ProcessLines that starts every line outside a block comment
RECURSIVE ProcessLinesFlagReset(_, _)
ProcessLinesFlagReset(lines, in_c) ==
    IF lines = <<>> THEN <<>>
    ELSE LET r == ScanLine(lines[1], 0, FALSE, <<>>)
             s == Strip(r.line)
         IN  (IF s # <<>> THEN <<s>> ELSE <<>>) \o ProcessLinesFlagReset(Tail(lines), FALSE)

\* The for loop over the lines: the stripped non-empty processed lines
RECURSIVE ProcessLines(_, _)
ProcessLines(lines, in_c) ==
    IF lines = <<>> THEN <<>>
    ELSE LET r == ScanLine(lines[1], 0, in_c, <<>>)
             s == Strip(r.line)
         IN  (IF s # <<>> THEN <<s>> ELSE <<>>) \o ProcessLines(Tail(lines), r.in_c)

\* "".join(result): a variant of JoinResult without the separator
JoinResultNoSeparator(lines) == Join(lines, <<>>)

\* " ".join(result)
JoinResult(lines) == Join(lines, <<SP>>)

remove_comments_and_normalize(text) ==
    JoinResult(ProcessLines(SplitLines(text), FALSE))

-----------------------------------------------------------------------------
(* compare_methods and find_changed_methods                                 *)
(*                                                                         *)
(* A catalog is what extract_contracts returns: a list of declarations     *)
(* [name, type, methods], methods a list of [name, text].  A change record *)
(* is [contract, contract_type, method, status]; the source gives a        *)
(* modified member a record without the "status" key, which is modelled as *)
(* status "modified".                                                      *)

RECURSIVE Concat(_)
Concat(seqs) == IF seqs = <<>> THEN <<>> ELSE Head(seqs) \o Concat(Tail(seqs))

\* the keys of {x["name"]: x for x in list}, in the dict's iteration order:
\* each name at the place of its first occurrence
DictKeys(list) ==
    Concat([i \in 1 .. Len(list) |->
               IF \E j \in 1 .. (i - 1) : list[j].name = list[i].name
               THEN <<>> ELSE <<list[i].name>>])

\* {x["name"]: x for x in list}[k]: a later item replaces an earlier one
DictGet(list, k) ==
    list[CHOOSE i \in 1 .. Len(list) :
            /\ list[i].name = k
            /\ \A j \in (i + 1) .. Len(list) : list[j].name # k]

InDict(list, k) == \E i \in 1 .. Len(list) : list[i].name = k

\* a variant of compare_methods that compares the stripped texts as they are
CompareRawText(old_method, new_method) ==
    Strip(old_method.text) # Strip(new_method.text)

\* a variant of compare_methods that normalizes the old text only
CompareOldNormalizedOnly(old_method, new_method) ==
    remove_comments_and_normalize(Strip(old_method.text)) # Strip(new_method.text)

compare_methods(old_method, new_method) ==
    LET old_text == remove_comments_and_normalize(Strip(old_method.text))
        new_text == remove_comments_and_normalize(Strip(new_method.text))
    IN  old_text # new_text

Change(c, t, m, st) == [contract |-> c, contract_type |-> t, method |-> m, status |-> st]

\* lines 232-266: a contract in both maps
MatchedContractChanges(contract_name, base_contract, head_contract) ==
    LET base_methods == base_contract.methods
        head_methods == head_contract.methods
        head_keys == DictKeys(head_methods)
        base_keys == DictKeys(base_methods)
    IN  Concat([i \in 1 .. Len(head_keys) |->
                   LET method_name == head_keys[i]
                   IN  IF InDict(base_methods, method_name)
                       THEN IF compare_methods(DictGet(base_methods, method_name),
                                               DictGet(head_methods, method_name))
                            THEN <<Change(contract_name, head_contract.type,
                                          method_name, "modified")>>
                            ELSE <<>>
                       ELSE <<Change(contract_name, head_contract.type,
                                     method_name, "added")>>])
        \o
        Concat([i \in 1 .. Len(base_keys) |->
                   IF ~InDict(head_methods, base_keys[i])
                   THEN <<Change(contract_name, base_contract.type,
                                 base_keys[i], "deleted")>>
                   ELSE <<>>])

\* lines 269-275 and 281-287: every item of the methods list of a contract
\* that is in one map only
AllMethodsChanges(contract, st) ==
    [i \in 1 .. Len(contract.methods) |->
        Change(contract.name, contract.type, contract.methods[i].name, st)]

find_changed_methods(base_contracts, head_contracts) ==
    LET head_keys == DictKeys(head_contracts)
        base_keys == DictKeys(base_contracts)
    IN  Concat([i \in 1 .. Len(head_keys) |->
                   LET contract_name == head_keys[i]
                       head_contract == DictGet(head_contracts, contract_name)
                   IN  IF InDict(base_contracts, contract_name)
                       THEN MatchedContractChanges(contract_name,
                                DictGet(base_contracts, contract_name), head_contract)
                       ELSE AllMethodsChanges(head_contract, "added")])
        \o
        Concat([i \in 1 .. Len(base_keys) |->
                   IF ~InDict(head_contracts, base_keys[i])
                   THEN AllMethodsChanges(DictGet(base_contracts, base_keys[i]), "deleted")
                   ELSE <<>>])

-----------------------------------------------------------------------------
(* analyze_changes: the report of one file *)

\* lines 529-542: group the change records by contract
GroupChanges(changed_methods) ==
    LET firsts == {i \in 1 .. Len(changed_methods) :
                      \A j \in 1 .. (i - 1) :
                          changed_methods[j].contract # changed_methods[i].contract}
    IN  Concat([i \in 1 .. Len(changed_methods) |->
                   IF i \notin firsts THEN <<>>
                   ELSE <<[name |-> changed_methods[i].contract,
                           type |-> changed_methods[i].contract_type,
                           methods |->
                               Concat([k \in 1 .. Len(changed_methods) |->
                                   IF /\ changed_methods[k].contract = changed_methods[i].contract
                                      /\ changed_methods[k].status = "modified"
                                   THEN <<changed_methods[k].method>>
                                   ELSE <<>>])]>>])

\* lines 506-512: every extracted declaration with every member name
AddedContracts(head_contracts) ==
    [i \in 1 .. Len(head_contracts) |->
        [name |-> head_contracts[i].name,
         type |-> head_contracts[i].type,
         methods |-> [j \in 1 .. Len(head_contracts[i].methods) |->
                         head_contracts[i].methods[j].name]]]

FileEntry(file_path, status, contracts) ==
    [file |-> file_path, status |-> status, contracts |-> contracts]

\* a variant of AppendAdded that drops an entry without contracts
AppendAddedIfContracts(res, file_entry) ==
    IF file_entry.contracts # <<>> THEN Append(res, file_entry) ELSE res

\* line 514
AppendAdded(res, file_entry) == Append(res, file_entry)

\* lines 550-551
AppendModified(res, file_entry) ==
    IF file_entry.contracts # <<>> THEN Append(res, file_entry) ELSE res

-----------------------------------------------------------------------------
(* The inputs: what extract_contracts returns for the content of a file *)

ContractNames == {"Vault", "Oracle"}
DeclType == [Vault |-> "contract", Oracle |-> "library"]
MethodNames == {"f", "g"}

TextA == <<"a", ";">>
TextAComment == <<"a", ";", SP, "/", "/", "c">>    \* TextA with a trailing comment
TextB == <<"b", ";">>
MemberTexts == {TextA, TextAComment, TextB}

Members == [name : MethodNames, text : MemberTexts]

\* declarations with exactly k members
DeclsWith(k) ==
    {[name |-> c, type |-> DeclType[c], methods |-> ms] :
        c \in ContractNames, ms \in [1 .. k -> Members]}

\* catalogs of at most d declarations and at most m members in all
RECURSIVE CatalogsOf(_, _)
CatalogsOf(d, m) ==
    {<<>>} \cup
    (IF d = 0 THEN {}
     ELSE UNION {{<<decl>> \o rest : decl \in DeclsWith(k), rest \in CatalogsOf(d - 1, m - k)} :
                    k \in 0 .. m})

Catalogs == CatalogsOf(MaxDecls, MaxMethods)

RECURSIVE MemberCount(_)
MemberCount(catalog) ==
    IF catalog = <<>> THEN 0
    ELSE Len(Head(catalog).methods) + MemberCount(Tail(catalog))

\* the loop's locals before the first iteration and after the loop
NoFile ==
    [kind |-> "none", status |-> "", path |-> 0, base |-> <<>>, head |-> <<>>,
     changed_methods |-> <<>>, contracts |-> <<>>]

-----------------------------------------------------------------------------
(* The normalizer as a state machine: a text is normalized, and then either *)
(* normalized again, or given a comment or reformatted and normalized.      *)

Chars == {"a", ";", "/", "*", SP, NL}

Texts == UNION {[1 .. n -> Chars] : n \in 0 .. MaxLen}

\* the variables of analyze_changes while only the normalizer runs
\* the variables of extract_contracts while another function runs
TreeIdle ==
    /\ tTree = <<>>
    /\ tOut = <<>>
    /\ tOp = "idle"

RunIdle ==
    /\ pc = "idle"
    /\ changed_files = <<>>
    /\ idx = 1
    /\ cur = NoFile
    /\ result = <<>>
    /\ all_changed_file_paths = <<>>
    /\ base_fetched = {}
    /\ diffed = {}
    /\ zip_exists = FALSE
    /\ tmpdir_exists = FALSE
    /\ audit_result = "none"

NormInit ==
    /\ nText \in Texts
    /\ nOrig = <<>>
    /\ nPrev = <<>>
    /\ nOut = <<>>
    /\ nOp = "input"
    /\ RunIdle
    /\ TreeIdle

Normalize ==
    /\ nOp = "input"
    /\ nOut' = remove_comments_and_normalize(nText)
    /\ nOp' = "normalized"
    /\ UNCHANGED <<nText, nOrig, nPrev, runVars, treeVars>>

\* the result is normalized once more
Renormalize ==
    /\ nOp = "normalized"
    /\ nPrev' = nOut
    /\ nOut' = remove_comments_and_normalize(nOut)
    /\ nOp' = "renormalized"
    /\ UNCHANGED <<nText, nOrig, runVars, treeVars>>

\* the text is replaced by t and normalized; op names the edit
Edit(t, op) ==
    /\ nOp = "normalized"
    /\ nText' = t
    /\ nOrig' = nText
    /\ nPrev' = nOut
    /\ nOut' = remove_comments_and_normalize(t)
    /\ nOp' = op
    /\ UNCHANGED <<runVars, treeVars>>

InsertAt(text, p, c) == SubSeq(text, 1, p) \o c \o SubSeq(text, p + 1, Len(text))

\* positions p with a ";" at p that no comment opener precedes: the text up
\* to and including p is code, so right after p is a statement boundary
Boundaries(text) ==
    {p \in 1 .. Len(text) :
        /\ text[p] = ";"
        /\ Find(SubSeq(text, 1, p), "/", "/", 0) = -1
        /\ Find(SubSeq(text, 1, p), "/", "*", 0) = -1}

LineComment == <<"/", "/", "a", NL>>
BlockComment == <<"/", "*", "a", "*", "/">>
BlockCommentTwoLines == <<"/", "*", "a", NL, "a", "*", "/">>
Comments == {LineComment, BlockComment, BlockCommentTwoLines}

InsertComment ==
    /\ nOp = "normalized"
    /\ \E p \in Boundaries(nText), c \in Comments :
           Edit(InsertAt(nText, p, c), "commented")

ReplaceLine(lines, k, new) == [lines EXCEPT ![k] = new]
InsertLine(lines, k, new) == SubSeq(lines, 1, k) \o <<new>> \o SubSeq(lines, k + 1, Len(lines))
RemoveLine(lines, k) == SubSeq(lines, 1, k - 1) \o SubSeq(lines, k + 1, Len(lines))
IsBlank(line) == \A j \in 1 .. Len(line) : line[j] \in Whitespace

BlankLines == {<<>>, <<SP>>, <<TAB>>}
Indents == {<<SP>>, <<TAB>>}

AddBlankLine ==
    /\ nOp = "normalized"
    /\ LET lines == SplitLines(nText)
       IN  \E k \in 0 .. Len(lines), b \in BlankLines :
               Edit(Join(InsertLine(lines, k, b), <<NL>>), "reformatted")

RemoveBlankLine ==
    /\ nOp = "normalized"
    /\ LET lines == SplitLines(nText)
       IN  \E k \in 1 .. Len(lines) :
               /\ Len(lines) > 1
               /\ IsBlank(lines[k])
               /\ Edit(Join(RemoveLine(lines, k), <<NL>>), "reformatted")

AddIndent ==
    /\ nOp = "normalized"
    /\ LET lines == SplitLines(nText)
       IN  \E k \in 1 .. Len(lines), w \in Indents :
               Edit(Join(ReplaceLine(lines, k, w \o lines[k]), <<NL>>), "reformatted")

RemoveIndent ==
    /\ nOp = "normalized"
    /\ LET lines == SplitLines(nText)
       IN  \E k \in 1 .. Len(lines) :
               /\ lines[k] # <<>>
               /\ Head(lines[k]) \in Whitespace
               /\ Edit(Join(ReplaceLine(lines, k, Tail(lines[k])), <<NL>>), "reformatted")

AddTrailing ==
    /\ nOp = "normalized"
    /\ LET lines == SplitLines(nText)
       IN  \E k \in 1 .. Len(lines), w \in Indents :
               Edit(Join(ReplaceLine(lines, k, lines[k] \o w), <<NL>>), "reformatted")

RemoveTrailing ==
    /\ nOp = "normalized"
    /\ LET lines == SplitLines(nText)
       IN  \E k \in 1 .. Len(lines) :
               /\ lines[k] # <<>>
               /\ lines[k][Len(lines[k])] \in Whitespace
               /\ Edit(Join(ReplaceLine(lines, k, SubSeq(lines[k], 1, Len(lines[k]) - 1)), <<NL>>),
                       "reformatted")

NormNext ==
    \/ Normalize
    \/ Renormalize
    \/ InsertComment
    \/ AddBlankLine
    \/ RemoveBlankLine
    \/ AddIndent
    \/ RemoveIndent
    \/ AddTrailing
    \/ RemoveTrailing

SpecNorm == NormInit /\ [][NormNext]_vars

-----------------------------------------------------------------------------
(* Claims about the normalizer *)

HasComment(text) ==
    \/ Find(text, "/", "/", 0) # -1
    \/ Find(text, "/", "*", 0) # -1

\* C7: a comment inserted at a statement boundary never changes the
\* normalized text, and compare_methods reports the two texts as not
\* different.  (Stated as the claim; the code does not satisfy it.)
C7_CommentInsensitive ==
    nOp = "commented" =>
        /\ nOut = nPrev
        /\ ~compare_methods([text |-> nOrig], [text |-> nText])

\* C8: the normalized text has no newline, no tab, no two adjacent
\* whitespace characters and no leading or trailing whitespace.  (Stated as
\* the claim; the code does not satisfy it.)
C8_WhitespaceCollapsed ==
    nOp # "input" =>
        /\ \A j \in 1 .. Len(nOut) : nOut[j] \notin {NL, TAB}
        /\ \A j \in 1 .. (Len(nOut) - 1) :
               ~(nOut[j] \in Whitespace /\ nOut[j + 1] \in Whitespace)
        /\ Strip(nOut) = nOut

C10_WhitespaceInsensitive ==
    nOp = "reformatted" =>
        /\ nOut = nPrev
        /\ ~compare_methods([text |-> nOrig], [text |-> nText])

\* C10 witness: a text of several lines with code on it was reformatted
C10_Witness ==
    /\ nOp = "reformatted"
    /\ Len(SplitLines(nText)) > 2
    /\ nOut # <<>>
    /\ nOut # nText

-----------------------------------------------------------------------------
(* analyze_changes as a state machine: one action per iteration of the for *)
(* loop (lines 482-551), then the submission (lines 553-606).              *)

\* the variables of the normalizer while analyze_changes runs
NormIdle ==
    /\ nText = <<>>
    /\ nOrig = <<>>
    /\ nPrev = <<>>
    /\ nOut = <<>>
    /\ nOp = "idle"

\* get_changed_files: statuses A and M only (line 48), one line per path
FileLists ==
    UNION {{[i \in 1 .. n |-> [status |-> st[i], path |-> i]] : st \in [1 .. n -> {"A", "M"}]} :
              n \in 0 .. MaxFiles}

RunInitWith(files) ==
    /\ pc = "loop"
    /\ changed_files = files
    /\ idx = 1
    /\ cur = NoFile
    /\ result = <<>>
    /\ all_changed_file_paths = <<>>
    /\ base_fetched = {}
    /\ diffed = {}
    /\ zip_exists = FALSE
    /\ tmpdir_exists = FALSE
    /\ audit_result = "none"
    /\ NormIdle
    /\ TreeIdle

\* line 482: the for statement binds status and file_path of the next file
NextFile ==
    /\ pc = "loop"
    /\ idx <= Len(changed_files)
    /\ cur' = [NoFile EXCEPT !.kind = "pending",
                             !.status = changed_files[idx].status,
                             !.path = changed_files[idx].path]
    /\ idx' = idx + 1
    /\ pc' = "body"
    /\ UNCHANGED <<changed_files, result, all_changed_file_paths, base_fetched,
                   diffed, zip_exists, audit_result, tmpdir_exists, normVars, treeVars>>

\* lines 483-487: the ignore spec matches the path
IgnoredFile ==
    /\ pc = "body"
    /\ cur' = [cur EXCEPT !.kind = "ignored"]
    /\ pc' = "loop"
    /\ UNCHANGED <<changed_files, idx, result, all_changed_file_paths, base_fetched,
                   diffed, zip_exists, audit_result, tmpdir_exists, normVars, treeVars>>

\* lines 489-493: the file is not ignored; get_file_content_at_head
FetchHead ==
    /\ pc = "body"
    /\ all_changed_file_paths' = Append(all_changed_file_paths, cur.path)
    /\ \E head \in Catalogs : cur' = [cur EXCEPT !.kind = "fetched", !.head = head]
    /\ pc' = "status"
    /\ UNCHANGED <<changed_files, idx, result, base_fetched, diffed, zip_exists,
                   audit_result, tmpdir_exists, normVars, treeVars>>

\* lines 495-514: a file with status "A"
AddedFile ==
    /\ pc = "status"
    /\ cur.status = "A"
    /\ LET contracts == AddedContracts(cur.head)
       IN  /\ result' = AppendAdded(result, FileEntry(cur.path, "A", contracts))
           /\ cur' = [cur EXCEPT !.kind = "added", !.contracts = contracts]
    /\ pc' = "loop"
    /\ UNCHANGED <<changed_files, idx, all_changed_file_paths, base_fetched, diffed,
                   zip_exists, audit_result, tmpdir_exists, normVars, treeVars>>

\* variant of ModifiedNoBase that reports the skipped file with no contracts
ModifiedNoBaseReported ==
    /\ pc = "status"
    /\ cur.status = "M"
    /\ cur' = [cur EXCEPT !.kind = "skipped"]
    /\ result' = Append(result, FileEntry(cur.path, "M", <<>>))
    /\ base_fetched' = base_fetched \cup {cur.path}
    /\ pc' = "loop"
    /\ UNCHANGED <<changed_files, idx, all_changed_file_paths, diffed,
                   zip_exists, audit_result, tmpdir_exists, normVars, treeVars>>

\* lines 516-522: status "M" and get_file_content_at_base returns b""
ModifiedNoBase ==
    /\ pc = "status"
    /\ cur.status = "M"
    /\ cur' = [cur EXCEPT !.kind = "skipped"]
    /\ base_fetched' = base_fetched \cup {cur.path}
    /\ pc' = "loop"
    /\ UNCHANGED <<changed_files, idx, result, all_changed_file_paths, diffed,
                   zip_exists, audit_result, tmpdir_exists, normVars, treeVars>>

\* the base catalogs that keep both revisions of the file together within
\* MaxDecls declarations and MaxMethods members
SmallBases(head) == CatalogsOf(MaxDecls - Len(head), MaxMethods - MemberCount(head))

\* lines 516-551: status "M" with base content, whose catalog is in bases
ModifiedFile(bases) ==
    /\ pc = "status"
    /\ cur.status = "M"
    /\ \E base \in bases :
        LET changed_methods == find_changed_methods(base, cur.head)
            contracts == GroupChanges(changed_methods)
        IN  /\ result' = AppendModified(result, FileEntry(cur.path, "M", contracts))
            /\ cur' = [cur EXCEPT !.kind = "modified", !.base = base,
                                  !.changed_methods = changed_methods,
                                  !.contracts = contracts]
    /\ base_fetched' = base_fetched \cup {cur.path}
    /\ diffed' = diffed \cup {cur.path}
    /\ pc' = "loop"
    /\ UNCHANGED <<changed_files, idx, all_changed_file_paths, zip_exists,
                   audit_result, tmpdir_exists, normVars, treeVars>>

LoopDone == pc = "loop" /\ idx > Len(changed_files)

\* line 554 false, line 606
ReturnNoChanges ==
    /\ LoopDone
    /\ all_changed_file_paths = <<>>
    /\ pc' = "done"
    /\ cur' = NoFile
    /\ UNCHANGED <<changed_files, idx, result, all_changed_file_paths, base_fetched,
                   diffed, zip_exists, audit_result, tmpdir_exists, normVars, treeVars>>

\* lines 554-586: create_project_zip makes a temporary directory (line 296)
\* and writes the ZIP into it (line 323)
CreateZip ==
    /\ LoopDone
    /\ all_changed_file_paths # <<>>
    /\ zip_exists' = TRUE
    /\ tmpdir_exists' = TRUE
    /\ pc' = "send"
    /\ cur' = NoFile
    /\ UNCHANGED <<changed_files, idx, result, all_changed_file_paths, base_fetched,
                   diffed, audit_result, normVars, treeVars>>

\* lines 343-350, 602-604: send_to_audit_service without an API token
\* returns before the try statement of line 423
SendNoToken ==
    /\ pc = "send"
    /\ audit_result' = "error"
    /\ pc' = "exit1"
    /\ UNCHANGED <<changed_files, idx, cur, result, all_changed_file_paths,
                   base_fetched, diffed, zip_exists, tmpdir_exists, normVars, treeVars>>

\* lines 393-396, 602-604: the ZIP is gone when line 394 looks for it (it
\* was removed from outside); the function returns before the try statement
SendZipMissing ==
    /\ pc = "send"
    /\ zip_exists' = FALSE
    /\ audit_result' = "error"
    /\ pc' = "exit1"
    /\ UNCHANGED <<changed_files, idx, cur, result, all_changed_file_paths,
                   base_fetched, diffed, tmpdir_exists, normVars, treeVars>>

SendOutcomes == {"result", "service_error", "invalid_json", "request_exception"}

\* lines 464-470: os.remove and os.rmdir both succeed, or os.remove raises
\* (os.rmdir is then not reached), or os.rmdir raises; the exception is
\* caught and only a warning is printed
CleanupOutcomes == {"removed", "remove_failed", "rmdir_failed"}

\* lines 423-470, 587-606: the request, its answer and the finally block
SendRequest ==
    /\ pc = "send"
    /\ \E outcome \in SendOutcomes :
        /\ audit_result' = IF outcome = "result" THEN "result" ELSE "error"
        /\ pc' = IF outcome = "result" THEN "done" ELSE "exit1"
    /\ \E cleanup \in CleanupOutcomes :
        /\ zip_exists' = (cleanup = "remove_failed")
        /\ tmpdir_exists' = (cleanup # "removed")
    /\ UNCHANGED <<changed_files, idx, cur, result, all_changed_file_paths,
                   base_fetched, diffed, normVars, treeVars>>

\* a run over a list of changed files
Init == \E files \in FileLists : RunInitWith(files)

Next ==
    \/ NextFile
    \/ IgnoredFile
    \/ FetchHead
    \/ AddedFile
    \/ ModifiedNoBase
    \/ ModifiedFile(SmallBases(cur.head))
    \/ ReturnNoChanges
    \/ CreateZip
    \/ SendNoToken
    \/ SendZipMissing
    \/ SendRequest

Spec == Init /\ [][Next]_vars

\* a run over one modified file
FileInit == RunInitWith(<<[status |-> "M", path |-> 1]>>)

FileNext ==
    \/ NextFile
    \/ IgnoredFile
    \/ FetchHead
    \/ ModifiedNoBase
    \/ ModifiedFile(Catalogs)
    \/ ReturnNoChanges
    \/ CreateZip
    \/ SendNoToken
    \/ SendZipMissing
    \/ SendRequest

SpecFile == FileInit /\ [][FileNext]_vars

-----------------------------------------------------------------------------
(* Claims about find_changed_methods and analyze_changes *)

Named(list, k) == \E i \in 1 .. Len(list) : list[i].name = k

\* the item a name stands for: the last one of that name
LastNamed(list, k) ==
    LET is == {i \in 1 .. Len(list) : list[i].name = k}
    IN  list[CHOOSE i \in is : \A j \in is : j <= i]

\* contract c has a member m in the catalog
PresentIn(catalog, c, m) ==
    Named(catalog, c) /\ Named(LastNamed(catalog, c).methods, m)

\* the members of contract c that are in both catalogs with different
\* normalized texts
ModifiedNames(base, head, c) ==
    {m \in MethodNames :
        /\ PresentIn(base, c, m)
        /\ PresentIn(head, c, m)
        /\ remove_comments_and_normalize(LastNamed(LastNamed(base, c).methods, m).text)
           # remove_comments_and_normalize(LastNamed(LastNamed(head, c).methods, m).text)}

\* the contracts reported for the file of the last iteration
Reported ==
    LET es == {i \in 1 .. Len(result) : result[i].file = cur.path}
    IN  IF es = {} THEN <<>> ELSE result[CHOOSE i \in es : TRUE].contracts

\* how many change records the last diff gave for member m of contract c
\* with a status in sts
Records(c, m, sts) ==
    Cardinality({i \in 1 .. Len(cur.changed_methods) :
                    /\ cur.changed_methods[i].contract = c
                    /\ cur.changed_methods[i].method = m
                    /\ cur.changed_methods[i].status \in sts})

HasDuplicates(catalog) ==
    \/ \E i, j \in 1 .. Len(catalog) : i < j /\ catalog[i].name = catalog[j].name
    \/ \E d \in 1 .. Len(catalog) :
           \E i, j \in 1 .. Len(catalog[d].methods) :
               i < j /\ catalog[d].methods[i].name = catalog[d].methods[j].name

\* C1: a contract is in the "contracts" list of a modified file only if one
\* of its members is modified.  (Stated as the claim; the code does not
\* satisfy it.)
C1_ReportedContractHasModifiedMember ==
    cur.kind = "modified" =>
        \A k \in 1 .. Len(Reported) :
            ModifiedNames(cur.base, cur.head, Reported[k].name) # {}

\* C2: every file of the returned list has status "A", or has status "M"
\* and a contract entry with a non-empty "methods" list.  (Stated as the
\* claim; the code does not satisfy it.)
C2_ReportedFileAddedOrHasModifiedMethods ==
    \A i \in 1 .. Len(result) :
        \/ result[i].status = "A"
        \/ /\ result[i].status = "M"
           /\ \E k \in 1 .. Len(result[i].contracts) :
                  result[i].contracts[k].methods # <<>>

\* C3: the "methods" list of each contract reported for a modified file
\* holds exactly the members that are in that contract in base and in head
\* with different normalized texts, each once.
C3_MethodsAreExactlyTheModified ==
    cur.kind = "modified" =>
        \A k \in 1 .. Len(Reported) :
            LET ms == Reported[k].methods
            IN  /\ \A i, j \in 1 .. Len(ms) : i < j => ms[i] # ms[j]
                /\ {ms[i] : i \in 1 .. Len(ms)}
                   = ModifiedNames(cur.base, cur.head, Reported[k].name)

\* C3 witness: a reported contract lists a modified member and the same
\* contract also has an added or a deleted member
C3_Witness ==
    /\ cur.kind = "modified"
    /\ \E k \in 1 .. Len(Reported) :
        /\ Reported[k].methods # <<>>
        /\ \E i \in 1 .. Len(cur.changed_methods) :
            /\ cur.changed_methods[i].contract = Reported[k].name
            /\ cur.changed_methods[i].status # "modified"

\* C4: a member that is in head and not in base yields exactly one "added"
\* record and no other record; a member that is in base and not in head
\* yields exactly one "deleted" record and no other record.  (Stated as the
\* claim; the code does not satisfy it.)
C4_OneRecordPerAddedOrDeletedMember ==
    cur.kind = "modified" =>
        \A c \in ContractNames, m \in MethodNames :
            /\ (PresentIn(cur.head, c, m) /\ ~PresentIn(cur.base, c, m)) =>
                   /\ Records(c, m, {"added"}) = 1
                   /\ Records(c, m, {"modified", "deleted"}) = 0
            /\ (PresentIn(cur.base, c, m) /\ ~PresentIn(cur.head, c, m)) =>
                   /\ Records(c, m, {"deleted"}) = 1
                   /\ Records(c, m, {"modified", "added"}) = 0

\* C5: a file with status "A" that is not ignored gets a report entry that
\* lists every declaration of head in order with every member name in
\* order, and neither its base content is fetched nor the diff is run.
C5_AddedFileReportsEverything ==
    cur.kind = "added" =>
        /\ result # <<>>
        /\ LET e == result[Len(result)]
           IN  /\ e.file = cur.path
               /\ e.status = "A"
               /\ Len(e.contracts) = Len(cur.head)
               /\ \A i \in 1 .. Len(cur.head) :
                      /\ e.contracts[i].name = cur.head[i].name
                      /\ e.contracts[i].type = cur.head[i].type
                      /\ Len(e.contracts[i].methods) = Len(cur.head[i].methods)
                      /\ \A j \in 1 .. Len(cur.head[i].methods) :
                             e.contracts[i].methods[j] = cur.head[i].methods[j].name
        /\ cur.path \notin base_fetched
        /\ cur.path \notin diffed

\* C5 witness: the second file is an added file of two declarations, one
\* of them with two members, after a modified file that was diffed
C5_Witness ==
    /\ cur.kind = "added"
    /\ Len(cur.head) = 2
    /\ \E i \in 1 .. 2 : Len(cur.head[i].methods) = 2
    /\ diffed # {}

\* C6: the diff of a catalog with itself is empty.
C6_SelfDiffEmpty ==
    (cur.kind = "modified" /\ cur.base = cur.head) => cur.changed_methods = <<>>

\* C6 witness: a catalog with a duplicate name and a member whose text has
\* a comment was diffed with itself
C6_Witness ==
    /\ cur.kind = "modified"
    /\ cur.base = cur.head
    /\ HasDuplicates(cur.base)
    /\ \E d \in 1 .. Len(cur.base) :
           \E i \in 1 .. Len(cur.base[d].methods) :
               cur.base[d].methods[i].text = TextAComment

\* the modified files whose base content could not be retrieved so far
Skipped == base_fetched \ diffed

\* the report entry of the file of the last iteration, as a function of its
\* own contents only; <<>> when the file gets no entry
OwnEntry ==
    IF cur.kind = "added"
    THEN <<FileEntry(cur.path, "A", AddedContracts(cur.head))>>
    ELSE LET contracts == GroupChanges(find_changed_methods(cur.base, cur.head))
         IN  IF contracts = <<>> THEN <<>>
             ELSE <<FileEntry(cur.path, "M", contracts)>>

\* the entries of the report for path p
EntriesFor(p) == SelectSeq(result, LAMBDA e : e.file = p)

\* C11: a modified file whose base content cannot be retrieved is not
\* diffed, gets no report entry and raises no error; the loop goes on, and
\* every later file is reported by the entry its own contents give, in the
\* order of the list, as if the skipped file were not in the list.
C11_MissingBaseSkipsOnlyThatFile ==
    /\ cur.kind = "skipped" =>
           /\ pc = "loop"
           /\ cur.path \notin diffed
           /\ audit_result = "none"
    /\ \A p \in Skipped : EntriesFor(p) = <<>>
    /\ \A i, j \in 1 .. Len(result) : i < j => result[i].file < result[j].file
    /\ pc \in {"send", "done", "exit1"} => idx = Len(changed_files) + 1
    /\ pc = "exit1" => audit_result = "error"
    /\ cur.kind \in {"added", "modified"} => EntriesFor(cur.path) = OwnEntry
    /\ \A k \in 1 .. Len(all_changed_file_paths) :
           LET p == all_changed_file_paths[k]
           IN  (pc = "status" /\ p = cur.path) \/ p \in Skipped
               \/ (changed_files[p].status = "A" /\ EntriesFor(p) # <<>>)
               \/ (changed_files[p].status = "M" /\ p \in diffed)

\* C11 witness: the first file was skipped for its missing base and the
\* second file, a modified one, has its entry in the report
C11_Witness ==
    /\ cur.kind = "modified"
    /\ cur.path = 2
    /\ 1 \in Skipped
    /\ result = OwnEntry
    /\ result # <<>>

\* C15: when analyze_changes returns or exits with status 1, the temporary
\* project ZIP and its directory are removed, whichever way
\* send_to_audit_service returned.  (Stated as the claim; the code does not
\* satisfy it.)
C15_ZipRemovedOnEveryReturn ==
    pc \in {"done", "exit1"} => (~zip_exists /\ ~tmpdir_exists)

\* the list with only the last item of each name kept
KeepLast(list) ==
    SelectSeq([i \in 1 .. Len(list) |->
                  [item |-> list[i],
                   last |-> \A j \in (i + 1) .. Len(list) : list[j].name # list[i].name]],
              LAMBDA x : x.last)

\* the catalog with only the last declaration of each name and, in each
\* declaration, only the last member of each name
KeepLastCatalog(catalog) ==
    LET decls == KeepLast(catalog)
    IN  [i \in 1 .. Len(decls) |->
            LET members == KeepLast(decls[i].item.methods)
            IN  [decls[i].item EXCEPT
                    !.methods = [j \in 1 .. Len(members) |-> members[j].item]]]

\* C12: declarations of one name and members of one name collapse to the
\* last one: the diff equals the diff of the catalogs with only the last
\* occurrences kept, and has at most one record per contract and member.
\* (Stated as the claim; the code does not satisfy it.)
C12_DuplicatesCollapseToLast ==
    cur.kind = "modified" =>
        /\ cur.changed_methods
           = find_changed_methods(KeepLastCatalog(cur.base), KeepLastCatalog(cur.head))
        /\ \A c \in ContractNames, m \in MethodNames :
               Records(c, m, {"modified", "added", "deleted"}) <= 1

-----------------------------------------------------------------------------
(* extract_contracts.  A node of the syntax tree is [type, text, children]: *)
(* text is the node's span of the source bytes, which get_node_text        *)
(* decodes, and children the list of direct children.  An Optional value   *)
(* is a list of no item (None) or one item.                                *)

Node(type, text, children) == [type |-> type, text |-> text, children |-> children]

\* a variant of find_node_by_type that returns the last child of the type
find_last_node_by_type(node, node_type) ==
    LET is == {i \in 1 .. Len(node.children) : node.children[i].type = node_type}
    IN  IF is = {} THEN <<>>
        ELSE <<node.children[CHOOSE i \in is : \A j \in is : j <= i]>>

find_node_by_type(node, node_type) ==
    LET is == {i \in 1 .. Len(node.children) : node.children[i].type = node_type}
    IN  IF is = {} THEN <<>>
        ELSE <<node.children[CHOOSE i \in is : \A j \in is : i <= j]>>

get_node_text(node) == node.text

get_node_name(node) ==
    LET identifier == find_node_by_type(node, "identifier")
    IN  IF identifier # <<>> THEN <<get_node_text(identifier[1])>>
        ELSE IF /\ node.type = "function_definition"
                /\ \E i \in 1 .. Len(node.children) : node.children[i].type = "constructor"
             THEN <<"$constructor">>
             ELSE <<>>

\* "if name:" for an Optional[str]: neither None nor the empty string
Truthy(name) == name # <<>> /\ name[1] # ""

DeclKinds ==
    [contract_declaration |-> "contract",
     library_declaration |-> "library",
     interface_declaration |-> "interface"]

\* lines 127-138: the members of one declaration
ExtractMethods(child) ==
    LET body == find_node_by_type(child, "contract_body")
    IN  IF body = <<>> THEN <<>>
        ELSE Concat([k \in 1 .. Len(body[1].children) |->
                 LET sub_child == body[1].children[k]
                     method_name == get_node_name(sub_child)
                 IN  IF /\ sub_child.type \in {"function_definition", "modifier_definition"}
                        /\ Truthy(method_name)
                     THEN <<[name |-> method_name[1], text |-> get_node_text(sub_child)]>>
                     ELSE <<>>])

extract_contracts(root) ==
    Concat([k \in 1 .. Len(root.children) |->
        LET child == root.children[k]
            decl_type == child.type
            name == get_node_name(child)
        IN  IF decl_type \in DOMAIN DeclKinds /\ Truthy(name)
            THEN <<[name |-> name[1], type |-> DeclKinds[decl_type],
                    methods |-> ExtractMethods(child)]>>
            ELSE <<>>])

\* ---- the inputs: syntax trees ----

Ident(t) == Node("identifier", t, <<>>)
Ctor == Node("constructor", "constructor", <<>>)
\* a node of a type the extractor does not look for, around other nodes
Nested(children) == Node("block", "{}", children)
Function(children) == Node("function_definition", "a;", children)
Modifier(children) == Node("modifier_definition", "b;", children)

\* children of a contract body.  An identifier with the empty text is the
\* zero-width node the parser inserts for a missing name.
MemberNodes ==
    {Function(<<Ident("f")>>),
     Function(<<Ident("g"), Ident("f")>>),
     Function(<<Ctor>>),
     Function(<<>>),
     Function(<<Ident(""), Ctor>>),
     Function(<<Ctor, Ident("g")>>),
     Function(<<Nested(<<Ident("g")>>)>>),
     Modifier(<<Ident("g")>>),
     Modifier(<<Ctor>>),
     Modifier(<<Ident("")>>),
     Node("state_variable_declaration", "a;", <<Ident("f")>>),
     Nested(<<Function(<<Ident("f")>>)>>)}

\* contract bodies with exactly k children
BodiesWith(k) == {Node("contract_body", "{}", ms) : ms \in [1 .. k -> MemberNodes]}

SecondBody == Node("contract_body", "{}", <<Function(<<Ident("f")>>)>>)

\* children of the root whose first contract body, if any, has k children
DeclNodes(k) ==
    UNION {{Node("contract_declaration", "", <<Ident("Vault"), b>>),
            Node("library_declaration", "", <<b, Ident("Oracle")>>),
            Node("interface_declaration", "", <<Ident("Vault"), Ident("Oracle"), b>>),
            Node("contract_declaration", "", <<b>>),
            Node("contract_declaration", "", <<Ident(""), b>>),
            Node("contract_declaration", "", <<Nested(<<Ident("Vault")>>), b>>),
            Node("struct_declaration", "", <<Ident("Vault"), b>>),
            Nested(<<Node("contract_declaration", "", <<Ident("Vault"), b>>)>>),
            Node("library_declaration", "", <<Ident("Oracle"), b, SecondBody>>)} :
           b \in BodiesWith(k)}
    \cup (IF k # 0 THEN {}
          ELSE {Node("contract_declaration", "", <<Ident("Vault")>>),
                Node("contract_declaration", "", <<Ident("Oracle"), Nested(<<SecondBody>>)>>)})

\* how many children the first body of each child of the root has: lists of
\* at most d numbers with a sum of at most m
RECURSIVE Splits(_, _)
Splits(d, m) ==
    {<<>>} \cup
    (IF d = 0 THEN {}
     ELSE UNION {{<<k>> \o rest : rest \in Splits(d - 1, m - k)} : k \in 0 .. m})

\* the lists of children of the root for one split
RECURSIVE ChildLists(_)
ChildLists(ks) ==
    IF ks = <<>> THEN {<<>>}
    ELSE LET rests == ChildLists(Tail(ks))
         IN  {<<n>> \o rest : n \in DeclNodes(Head(ks)), rest \in rests}

TreeInit ==
    /\ \E ks \in Splits(MaxDecls, MaxMethods) :
           \E cs \in ChildLists(ks) : tTree = Node("source_file", "", cs)
    /\ tOut = <<>>
    /\ tOp = "input"
    /\ RunIdle
    /\ NormIdle

Extract ==
    /\ tOp = "input"
    /\ tOut' = extract_contracts(tTree)
    /\ tOp' = "extracted"
    /\ UNCHANGED <<tTree, runVars, normVars>>

TreeNext == Extract

SpecTree == TreeInit /\ [][TreeNext]_vars

\* ---- the claim about extract_contracts ----

HasChild(node, t) == \E i \in 1 .. Len(node.children) : node.children[i].type = t

FirstChild(node, t) ==
    node.children[CHOOSE i \in 1 .. Len(node.children) :
                     /\ node.children[i].type = t
                     /\ \A j \in 1 .. (i - 1) : node.children[j].type # t]

IsDeclaration(node) == node.type \in DOMAIN DeclKinds
IsDefinition(node) == node.type \in {"function_definition", "modifier_definition"}
IsConstructor(node) ==
    /\ node.type = "function_definition"
    /\ ~HasChild(node, "identifier")
    /\ HasChild(node, "constructor")

\* the name of a node that has one
NameOf(node) ==
    IF HasChild(node, "identifier") THEN FirstChild(node, "identifier").text
    ELSE "$constructor"

\* a declaration with a direct identifier child
IdentifiedDecl(node) == IsDeclaration(node) /\ HasChild(node, "identifier")
\* a definition with a direct identifier child, or a constructor
IdentifiedMember(node) ==
    IsDefinition(node) /\ (HasChild(node, "identifier") \/ IsConstructor(node))

\* the same, with an identifier whose text is not empty
ResolvedDecl(node) == IdentifiedDecl(node) /\ NameOf(node) # ""
ResolvedMember(node) == IdentifiedMember(node) /\ NameOf(node) # ""

\* the catalog of the root's direct children that satisfy Decl, each with
\* the direct children of its first body that satisfy Member, in source order
CatalogOf(root, Decl(_), Member(_)) ==
    LET ds == SelectSeq(root.children, Decl)
    IN  [i \in 1 .. Len(ds) |->
            LET ms == IF HasChild(ds[i], "contract_body")
                      THEN SelectSeq(FirstChild(ds[i], "contract_body").children, Member)
                      ELSE <<>>
            IN  [name |-> NameOf(ds[i]),
                 type |-> DeclKinds[ds[i].type],
                 methods |-> [j \in 1 .. Len(ms) |->
                                 [name |-> NameOf(ms[j]), text |-> ms[j].text]]]]

\* C13, as stated: extract_contracts returns, in source order, exactly the
\* direct children of the root that are contract/library/interface
\* declarations with a direct identifier child, named by the first one, each
\* with exactly the function/modifier definitions that are direct children
\* of its body, named by their first identifier child or "$constructor".
\* (The code does not satisfy it for an identifier with empty text.)
C13_ExtractsEveryIdentified ==
    tOp = "extracted" => tOut = CatalogOf(tTree, IdentifiedDecl, IdentifiedMember)

\* C13, amended: the same for the declarations and definitions whose first
\* identifier child has a non-empty text; one whose first identifier child
\* has the empty text is skipped, a constructor marker notwithstanding.
C13_ExtractsEveryResolved ==
    tOp = "extracted" => tOut = CatalogOf(tTree, ResolvedDecl, ResolvedMember)

\* C13 witness: a child of the root was skipped and a declaration was
\* extracted whose body has a constructor and a child that is not reported
C13_Witness ==
    /\ tOp = "extracted"
    /\ Len(tOut) < Len(tTree.children)
    /\ \E i \in 1 .. Len(tOut) :
        /\ Len(tOut[i].methods) = 1
        /\ tOut[i].methods[1].name = "$constructor"
        /\ \E k \in 1 .. Len(tTree.children) :
            /\ ResolvedDecl(tTree.children[k])
            /\ HasChild(tTree.children[k], "contract_body")
            /\ Len(FirstChild(tTree.children[k], "contract_body").children) = 2

-----------------------------------------------------------------------------
(* remove_comments_and_normalize on texts made of comment markers *)

Tokens == {<<"a">>, <<"/">>, <<"/", "/">>, <<"/", "*">>, <<"*", "/">>, <<NL>>}

\* a text of the characters of Chars up to MaxLen, or of up to MaxTokens tokens
CommentInit ==
    /\ \/ nText \in Texts
       \/ \E n \in 0 .. MaxTokens : \E ts \in [1 .. n -> Tokens] : nText = Concat(ts)
    /\ nOrig = <<>>
    /\ nPrev = <<>>
    /\ nOut = <<>>
    /\ nOp = "input"
    /\ RunIdle
    /\ TreeIdle

CommentNext == Normalize

SpecComment == CommentInit /\ [][CommentNext]_vars

\* text has the two characters c1, c2 at positions p, p + 1
At(text, p, c1, c2) == p + 1 <= Len(text) /\ text[p] = c1 /\ text[p + 1] = c2

\* The lines of text without its comments, read character by character from
\* position p on.  mode is "code", "line" (after //) or "block" (after /*);
\* line holds the characters of the current line that are kept.
RECURSIVE Uncommented(_, _, _, _)
Uncommented(text, p, mode, line) ==
    IF p > Len(text) THEN <<line>>
    ELSE IF text[p] = NL
    THEN <<line>> \o Uncommented(text, p + 1, IF mode = "block" THEN "block" ELSE "code", <<>>)
    ELSE IF mode = "block"
    THEN IF At(text, p, "*", "/")
         THEN Uncommented(text, p + 2, "code", line)
         ELSE Uncommented(text, p + 1, "block", line)
    ELSE IF mode = "line"
    THEN Uncommented(text, p + 1, "line", line)
    ELSE IF At(text, p, "/", "/")
    THEN Uncommented(text, p + 2, "line", line)
    ELSE IF At(text, p, "/", "*")
    THEN Uncommented(text, p + 2, "block", line)
    ELSE Uncommented(text, p + 1, "code", Append(line, text[p]))

\* the kept lines, stripped, without the empty ones
StrippedNonEmpty(lines) ==
    LET stripped == [i \in 1 .. Len(lines) |-> Strip(lines[i])]
    IN  SelectSeq(stripped, LAMBDA l : l # <<>>)

\* C14: the block-comment flag persists across lines.  Nothing from a /*
\* opened outside a comment up to and including the next */ is kept, on the
\* same or a later line; // and /* inside it have no effect; scanning
\* resumes right after */; an unterminated block comment discards the rest
\* of the text.  Outside a block comment the earlier of // and /* decides,
\* and a /* after a // does not open a block comment.
C14_BlockCommentPersists ==
    nOp = "normalized" =>
        nOut = JoinResult(StrippedNonEmpty(Uncommented(nText, 1, "code", <<>>)))

\* C14 witness: a block comment that holds a // runs over a line break and
\* the text after its end is kept
C14_Witness ==
    /\ nOp = "normalized"
    /\ nText = <<"/", "*", "/", "/", NL, "*", "/", "a">>
    /\ nOut = <<"a">>

====
